---- MODULE Spec2Model ----
(***************************************************************************)
(* Model of crates/cheatnet/src/cheatcodes/deploy.rs: CheatnetState::deploy *)
(* and create_execute_calldata.                                             *)
(*                                                                          *)
(* Field elements are natural numbers below FELT_MODULUS, a scaled-down     *)
(* stand-in for the 252-bit Stark prime; contract addresses are the felts   *)
(* below L2_ADDRESS_UPPER_BOUND.  Option<T> is a sequence of length 0       *)
(* (None) or 1 (Some).  Short strings and names are sequences of bytes.     *)
(***************************************************************************)
EXTENDS Integers, Sequences, FiniteSets, TLC

\* Bounds of the model.
MaxDeploys == 3
MaxArgs == 2

\* ------------------------------------------------------------------ Option
None == <<>>
Some(x) == <<x>>
IsSome(o) == Len(o) = 1
Unwrap(o) == o[1]

\* ------------------------------------------------------------------ felts
FELT_MODULUS == 4194319
L2_ADDRESS_UPPER_BOUND == 4194048

RECURSIVE FoldBytes(_, _, _)
FoldBytes(bytes, acc, radix) ==
    IF bytes = <<>> THEN acc
    ELSE FoldBytes(Tail(bytes), (acc * radix + Head(bytes)) % FELT_MODULUS, radix)

RECURSIVE to_bytes_be(_)
to_bytes_be(f) ==
    IF f < 256 THEN <<f>> ELSE Append(to_bytes_be(f \div 256), f % 256)

\* crate::conversions::felt_from_short_string: the big-endian bytes of the
\* string read as one field element.
felt_from_short_string(s) == FoldBytes(s, 0, 256)

\* blockifier::execution::execution_utils::felt_to_stark_felt: Felt252 to
\* StarkFelt through the big-endian byte representation.
felt_to_stark_felt(f) == FoldBytes(to_bytes_be(f), 0, 256)

\* blockifier::abi::abi_utils::selector_from_name: a hash of the name.
selector_from_name(name) == FoldBytes(name, 0, 31)

\* stark_felt!(n) of an unsigned integer.
stark_felt(n) == n % FELT_MODULUS

\* "No constructor in contract"
NO_CONSTRUCTOR_MSG ==
    <<78, 111, 32, 99, 111, 110, 115, 116, 114, 117, 99, 116, 111, 114, 32,
      105, 110, 32, 99, 111, 110, 116, 114, 97, 99, 116>>

\* "deploy_contract"
DEPLOY_CONTRACT ==
    <<100, 101, 112, 108, 111, 121, 95, 99, 111, 110, 116, 114, 97, 99, 116>>

\* "PANIK", "DEJTA": panic words of a reverting constructor.
PANIK == <<80, 65, 78, 73, 75>>
DEJTA == <<68, 69, 74, 84, 65>>

TEST_ACCOUNT_CONTRACT_ADDRESS == 257

\* ContractAddress::try_from(felt): Some(address) when the felt is a valid
\* address, None otherwise.
ContractAddress_try_from(felt) ==
    IF felt >= 0 /\ felt < L2_ADDRESS_UPPER_BOUND THEN Some(felt) ELSE None

\* ------------------------------------------------------- result of deploy
\* Result<ContractAddress, CheatcodeError>, plus the panic that unwinds out
\* of deploy instead of returning.
Ok(address) ==
    [tag |-> "Ok", address |-> address, panic_data |-> <<>>, msg |-> ""]
Recoverable(panic_data) ==
    [tag |-> "Recoverable", address |-> 0, panic_data |-> panic_data, msg |-> ""]
Unrecoverable(msg) ==
    [tag |-> "Unrecoverable", address |-> 0, panic_data |-> <<>>, msg |-> msg]
Panic(msg) ==
    [tag |-> "Panic", address |-> 0, panic_data |-> <<>>, msg |-> msg]
NoResult ==
    [tag |-> "None", address |-> 0, panic_data |-> <<>>, msg |-> ""]

\* ------------------------------------------------------- calldata encoder
MutCalldataConflatedCounters(calldata, class_hash, account_address, entry_point_selector, salt) ==
    LET calldata_len == Len(calldata)
    IN  <<account_address, entry_point_selector, stark_felt(calldata_len + 3),
          class_hash, salt, stark_felt(calldata_len + 3)>>
        \o [i \in 1..Len(calldata) |-> felt_to_stark_felt(calldata[i])]

MutCalldataDropsSalt(calldata, class_hash, account_address, entry_point_selector, salt) ==
    <<account_address, entry_point_selector, stark_felt(Len(calldata) + 3),
      class_hash, 0, stark_felt(Len(calldata))>>
    \o [i \in 1..Len(calldata) |-> felt_to_stark_felt(calldata[i])]

create_execute_calldata(calldata, class_hash, account_address, entry_point_selector, salt) ==
    LET calldata_len == Len(calldata)
        execute_calldata ==
            <<account_address,                \* Contract address.
              entry_point_selector,           \* EP selector.
              stark_felt(calldata_len + 3),   \* Calldata length.
              class_hash,                     \* Calldata: class_hash.
              salt,                           \* Contract_address_salt.
              stark_felt(calldata_len)>>      \* Constructor calldata length.
    IN  execute_calldata
        \o [i \in 1..Len(calldata) |-> felt_to_stark_felt(calldata[i])]

\* ------------------------------------------------------------- the ledger
\* Class hashes a test passes to deploy: 123 is declared and has a
\* constructor, 124 is declared and has none, 125 was never declared.
ClassHashes == {123, 124, 125}
DeclaredClasses ==
    [h \in {123, 124} |->
        [constructor_selector |->
            IF h = 123 THEN Some(selector_from_name(<<99, 116, 111, 114>>)) ELSE None]]

\* Constructor arguments a test passes to deploy.
CtorCalldata == {<<>>, <<100>>, <<100, 200>>}

\* CachedState<DictStateReader> right after the classes were declared.
InitialBlockifierState ==
    [classes |-> DeclaredClasses,
     nonces |-> [a \in {TEST_ACCOUNT_CONTRACT_ADDRESS} |-> 0],
     deployed |-> {}]

\* StateReader::get_compiled_contract_class: None stands for the Err of an
\* undeclared class hash.
get_compiled_contract_class(state, class_hash) ==
    IF class_hash \in DOMAIN state.classes
    THEN Some(state.classes[class_hash]) ELSE None

\* StateReader::get_nonce_at: None stands for the Err of a failing reader.
get_nonce_at(state, contract_address, reader_fails) ==
    IF reader_fails THEN None ELSE Some(state.nonces[contract_address])

\* Revert reasons the engine may report: one that carries panic data, one
\* that carries empty panic data, one that is no panic message at all.
REVERT_PANIC == [failure_reason |-> TRUE, words |-> <<PANIK, DEJTA>>]
REVERT_EMPTY == [failure_reason |-> TRUE, words |-> <<>>]
REVERT_UNPARSEABLE == [failure_reason |-> FALSE, words |-> <<PANIK>>]

\* crate::panic_data::try_extract_panic_data.
try_extract_panic_data(revert_error) ==
    IF revert_error.failure_reason
    THEN Some([i \in 1..Len(revert_error.words) |->
                  felt_from_short_string(revert_error.words[i])])
    ELSE None

\* What the engine and the state reader may answer during one call.
TraceKinds == {"none", "empty", "invalid", "address", "address_more"}
RevertKinds == {"none", "panic", "empty", "unparseable"}
Envs ==
    {[nonce_fails |-> TRUE, rejected |-> FALSE, trace |-> "none", revert |-> "none"],
     [nonce_fails |-> FALSE, rejected |-> TRUE, trace |-> "none", revert |-> "none"]}
    \cup [nonce_fails : {FALSE}, rejected : {FALSE},
          trace : TraceKinds, revert : RevertKinds]

RECURSIVE SumSeq(_)
SumSeq(s) == IF s = <<>> THEN 0 ELSE Head(s) + SumSeq(Tail(s))

\* The engine's address derivation: a deterministic function of (deployer,
\* class, salt, arguments), injective in the salt.
calculate_contract_address(salt, class_hash, constructor_calldata, deployer_address) ==
    LET mixed ==
            (deployer_address + (7 * class_hash) + SumSeq(constructor_calldata)) % 4096
    IN  ((salt * 4096) + mixed) % L2_ADDRESS_UPPER_BOUND

\* AccountTransaction::execute: the account's __execute__ forwards the call
\* laid out in the calldata; the engine answers Err (rejected), or a
\* TransactionExecutionInfo with an optional call trace and an optional
\* revert reason.
execute(account_tx, state, charge_fee, validate, env) ==
    LET cd == account_tx.tx.calldata
        sender == account_tx.tx.sender_address
        n == cd[6]
        address ==
            calculate_contract_address(cd[5], cd[4], SubSeq(cd, 7, 6 + n), cd[1])
        retdata ==
            CASE env.trace = "empty" -> <<>>
              [] env.trace = "invalid" -> <<L2_ADDRESS_UPPER_BOUND + 1>>
              [] env.trace = "address" -> <<address>>
              [] OTHER -> <<address, n>>
        revert_error ==
            CASE env.revert = "none" -> None
              [] env.revert = "panic" -> Some(REVERT_PANIC)
              [] env.revert = "empty" -> Some(REVERT_EMPTY)
              [] OTHER -> Some(REVERT_UNPARSEABLE)
        succeeded == env.trace \in {"address", "address_more"}
    IN  IF env.rejected
        THEN [tx_info |-> None, state |-> state]
        ELSE [tx_info |->
                 Some([execute_call_info |->
                          IF env.trace = "none" THEN None
                          ELSE Some([execution |-> [retdata |-> retdata]]),
                       revert_error |-> revert_error]),
              state |->
                 [state EXCEPT
                    !.nonces[sender] = @ + 1,
                    !.deployed = IF succeeded THEN @ \cup {address} ELSE @]]

\* crate::constants::build_invoke_transaction.
build_invoke_transaction(execute_calldata, account_address) ==
    [sender_address |-> account_address, calldata |-> execute_calldata,
     nonce |-> 0, signature |-> <<>>]

\* ---------------------------------------------------------- salt allocator
get_salt(self) == self.deploy_salt_base
increment_deploy_salt_base(self) ==
    [self EXCEPT !.deploy_salt_base = @ + 1]

\* Lines 38-39 of deploy: the salt is captured, then the counter advances.
MutAllocateNoAdvance(self) ==
    [salt |-> get_salt(self), self |-> self]

MutAllocateAfterAdvance(self) ==
    [salt |-> get_salt(increment_deploy_salt_base(self)),
     self |-> increment_deploy_salt_base(self)]

allocate_salt(self) ==
    LET salt == get_salt(self)
    IN  [salt |-> salt, self |-> increment_deploy_salt_base(self)]

\* ------------------------------------------------------------------ deploy
\* Line 46: the class declares no constructor and arguments were passed.
MutGuardInverted(contract_class, calldata) ==
    contract_class.constructor_selector # None /\ calldata # <<>>

MutGuardIgnoresConstructor(contract_class, calldata) ==
    calldata # <<>>

MutGuardIgnoresCalldata(contract_class, calldata) ==
    contract_class.constructor_selector = None

no_constructor_guard(contract_class, calldata) ==
    contract_class.constructor_selector = None /\ calldata # <<>>

\* Lines 47-49.
no_constructor_error ==
    Recoverable(<<felt_from_short_string(NO_CONSTRUCTOR_MSG)>>)

\* Lines 43-45 and 60-63: the ? operator returns the EnhancedHintError to
\* the caller, converted into CheatcodeError.
MutStateErrorRecoverable(msg) == Recoverable(<<>>)

state_error(msg) == Unrecoverable(msg)

\* Line 72: the charge_fee and validate arguments of execute.
execute_flags == [charge_fee |-> TRUE, validate |-> TRUE]

\* Lines 75-94: the outcome of an executed transaction.
MutClassifyLastRetdata(tx_info) ==
    IF IsSome(tx_info.execute_call_info)
    THEN LET retdata == Unwrap(tx_info.execute_call_info).execution.retdata
         IN  IF Len(retdata) = 0
             THEN Panic("Failed to get contract_address from return_data")
             ELSE Ok(retdata[Len(retdata)])
    ELSE IF tx_info.revert_error = None
    THEN Panic("Unparseable tx info")
    ELSE LET e == try_extract_panic_data(Unwrap(tx_info.revert_error))
         IN  IF e = None THEN Panic("Unparseable error message")
             ELSE Recoverable(Unwrap(e))

MutClassifyTruncatesPanicData(tx_info) ==
    IF IsSome(tx_info.execute_call_info)
    THEN LET retdata == Unwrap(tx_info.execute_call_info).execution.retdata
         IN  IF Len(retdata) = 0 \/ ContractAddress_try_from(retdata[1]) = None
             THEN Panic("Failed to get contract_address from return_data")
             ELSE Ok(retdata[1])
    ELSE IF tx_info.revert_error = None
    THEN Panic("Unparseable tx info")
    ELSE LET e == try_extract_panic_data(Unwrap(tx_info.revert_error))
         IN  IF e = None THEN Panic("Unparseable error message")
             ELSE Recoverable(IF Unwrap(e) = <<>> THEN <<>> ELSE <<Unwrap(e)[1]>>)

classify(tx_info) ==
    IF IsSome(tx_info.execute_call_info)
    THEN LET execution == Unwrap(tx_info.execute_call_info).execution
         IN  IF Len(execution.retdata) = 0
             THEN Panic("Failed to get contract_address from return_data")
             ELSE LET contract_address ==
                          ContractAddress_try_from(execution.retdata[1])
                  IN  IF contract_address = None
                      THEN Panic("Failed to cast contract address into the right struct")
                      ELSE Ok(Unwrap(contract_address))
    ELSE IF tx_info.revert_error = None
    THEN Panic("Unparseable tx info")
    ELSE LET extracted_panic_data ==
                 try_extract_panic_data(Unwrap(tx_info.revert_error))
         IN  IF extracted_panic_data = None
             THEN Panic("Unparseable error message")
             ELSE Recoverable(Unwrap(extracted_panic_data))

\* The record of one deploy call: its inputs, what each step produced, the
\* steps taken in order, and the result.
EmptyCall ==
    [called |-> FALSE, class_hash |-> 0, calldata |-> <<>>, salt |-> None,
     log |-> <<>>, execute_calldata |-> None, nonce |-> None,
     account_tx |-> None, flags |-> None, engine |-> "untouched",
     tx_info |-> None, result |-> NoResult,
     salt_base_before |-> 0, state_before |-> InitialBlockifierState]

\* Lines 35 and 37.
account_address == TEST_ACCOUNT_CONTRACT_ADDRESS
entry_point_selector == selector_from_name(DEPLOY_CONTRACT)

\* Lines 64-69: the invoke transaction at the nonce read, with the default
\* (zero) transaction hash.
MutAccountTxDefaultNonce(execute_calldata, sender, nonce) ==
    [tx |-> build_invoke_transaction(execute_calldata, sender), tx_hash |-> 0]

build_account_tx(execute_calldata, sender, nonce) ==
    LET tx == [build_invoke_transaction(execute_calldata, sender)
                 EXCEPT !.nonce = nonce]
    IN  [tx |-> tx, tx_hash |-> 0]

\* Lines 52-94: what deploy does once the guard has passed.  self1 and call1
\* are the harness and the record of the call so far, salt the captured salt.
deploy_submit(self1, call1, salt, class_hash, calldata, env) ==
    LET execute_calldata ==
            create_execute_calldata(calldata, class_hash, account_address,
                                    entry_point_selector, salt)
        nonce == get_nonce_at(self1.blockifier_state, account_address,
                              env.nonce_fails)
        call2 ==
            [call1 EXCEPT
               !.execute_calldata = Some(execute_calldata),
               !.nonce = nonce,
               !.log = @ \o <<"create_execute_calldata", "get_nonce_at">>]
    IN
    IF nonce = None
    THEN [self |-> self1,
          call |-> [call2 EXCEPT !.engine = "nonce_failed",
                                 !.result = state_error("Failed to get nonce")]]
    ELSE
    LET account_tx ==
            build_account_tx(execute_calldata, account_address, Unwrap(nonce))
        flags == execute_flags
        executed == execute(account_tx, self1.blockifier_state,
                            flags.charge_fee, flags.validate, env)
        self2 == [self1 EXCEPT !.blockifier_state = executed.state]
        call3 ==
            [call2 EXCEPT
               !.account_tx = Some(account_tx), !.flags = Some(flags),
               !.tx_info = executed.tx_info,
               !.log = Append(@, "execute")]
    IN
    IF executed.tx_info = None
    THEN [self |-> self2,
          call |-> [call3 EXCEPT !.engine = "rejected",
                                 !.result = Panic("Unparseable transaction error")]]
    ELSE [self |-> self2,
          call |-> [call3 EXCEPT !.engine = "executed",
                                 !.log = Append(@, "classify"),
                                 !.result = classify(Unwrap(executed.tx_info))]]

\* deploy with the salt allocated only after the class lookup and the guard.
MutDeploySaltAfterGuard(self, class_hash, calldata, env) ==
    LET call0 ==
            [EmptyCall EXCEPT
               !.called = TRUE, !.class_hash = class_hash,
               !.calldata = calldata,
               !.salt_base_before = self.deploy_salt_base,
               !.state_before = self.blockifier_state,
               !.log = <<"get_compiled_contract_class">>]
        contract_class ==
            get_compiled_contract_class(self.blockifier_state, class_hash)
    IN
    IF contract_class = None
    THEN [self |-> self,
          call |-> [call0 EXCEPT !.salt = Some(get_salt(self)),
                                 !.result = state_error("class hash is not declared")]]
    ELSE IF no_constructor_guard(Unwrap(contract_class), calldata)
    THEN [self |-> self,
          call |-> [call0 EXCEPT !.salt = Some(get_salt(self)),
                                 !.log = Append(@, "constructor_check"),
                                 !.result = no_constructor_error]]
    ELSE LET alloc == allocate_salt(self)
         IN  deploy_submit(alloc.self,
                           [call0 EXCEPT
                              !.salt = Some(alloc.salt),
                              !.log = @ \o <<"constructor_check", "get_salt",
                                            "increment_deploy_salt_base">>],
                           alloc.salt, class_hash, calldata, env)

\* CheatnetState::deploy.  env is what the state reader and the engine
\* answer during this call.
deploy(self, class_hash, calldata, env) ==
    LET alloc == allocate_salt(self)
        salt == alloc.salt
        self1 == alloc.self
        call0 ==
            [EmptyCall EXCEPT
               !.called = TRUE, !.class_hash = class_hash,
               !.calldata = calldata, !.salt = Some(salt),
               !.salt_base_before = self.deploy_salt_base,
               !.state_before = self.blockifier_state,
               !.log = <<"get_salt", "increment_deploy_salt_base",
                         "get_compiled_contract_class">>]
        contract_class ==
            get_compiled_contract_class(self1.blockifier_state, class_hash)
    IN
    IF contract_class = None
    THEN [self |-> self1,
          call |-> [call0 EXCEPT !.result = state_error("class hash is not declared")]]
    ELSE
    LET call1 == [call0 EXCEPT !.log = Append(@, "constructor_check")] IN
    IF no_constructor_guard(Unwrap(contract_class), calldata)
    THEN [self |-> self1, call |-> [call1 EXCEPT !.result = no_constructor_error]]
    ELSE deploy_submit(self1, call1, salt, class_hash, calldata, env)

\* ------------------------------------------------------------------- state
VARIABLES
    deploy_salt_base,   \* CheatnetState.deploy_salt_base
    blockifier_state,   \* CheatnetState.blockifier_state
    status,             \* "running", or "aborted" once deploy has panicked
    last,               \* the record of the latest deploy call
    salts_used,         \* the salts captured by the calls so far, in order
    deployments,        \* the successful calls so far
    enc                 \* a call of create_execute_calldata on its own

vars == <<deploy_salt_base, blockifier_state, status, last, salts_used,
          deployments, enc>>

\* The CheatnetState deploy is called on (&mut self).
cheatnet_state ==
    [deploy_salt_base |-> deploy_salt_base, blockifier_state |-> blockifier_state]

EncIdle ==
    [phase |-> "idle", calldata |-> <<>>, class_hash |-> 0,
     account_address |-> 0, entry_point_selector |-> 0, salt |-> 0,
     out |-> <<>>]

InitHarness ==
    /\ deploy_salt_base = 0
    /\ blockifier_state = InitialBlockifierState
    /\ status = "running"
    /\ last = EmptyCall
    /\ salts_used = <<>>
    /\ deployments = {}

Init ==
    /\ InitHarness
    /\ enc = EncIdle

Deploy(class_hash, calldata, env) ==
    /\ status = "running"
    /\ Len(salts_used) < MaxDeploys
    /\ LET r == deploy(cheatnet_state, class_hash, calldata, env)
       IN  /\ deploy_salt_base' = r.self.deploy_salt_base
           /\ blockifier_state' = r.self.blockifier_state
           /\ last' = r.call
           /\ status' = IF r.call.result.tag = "Panic" THEN "aborted" ELSE "running"
           /\ salts_used' = Append(salts_used, Unwrap(r.call.salt))
           /\ deployments' =
                 IF r.call.result.tag = "Ok"
                 THEN deployments \cup
                        {[n |-> Len(salts_used) + 1, class_hash |-> class_hash,
                          calldata |-> calldata,
                          address |-> r.call.result.address]}
                 ELSE deployments
    /\ UNCHANGED enc

Next ==
    \E class_hash \in ClassHashes, calldata \in CtorCalldata, env \in Envs :
        Deploy(class_hash, calldata, env)

Spec == Init /\ [][Next]_vars

\* ----------------------------------------- the calldata encoder on its own
EncFelts == {100, 200}
EncArgs == UNION {[1..n -> EncFelts] : n \in 0..MaxArgs}

InitEncode ==
    /\ InitHarness
    /\ enc \in [phase : {"input"}, calldata : EncArgs, class_hash : {123, 124},
                account_address : {111, TEST_ACCOUNT_CONTRACT_ADDRESS},
                entry_point_selector : {222, selector_from_name(DEPLOY_CONTRACT)},
                salt : {0, 1, 333}, out : {<<>>}]

Encode ==
    /\ enc.phase = "input"
    /\ enc' = [enc EXCEPT
                 !.phase = "output",
                 !.out = create_execute_calldata(enc.calldata, enc.class_hash,
                            enc.account_address, enc.entry_point_selector,
                            enc.salt)]
    /\ UNCHANGED <<deploy_salt_base, blockifier_state, status, last,
                   salts_used, deployments>>

NextEncode == Encode

SpecEncode == InitEncode /\ [][NextEncode]_vars

\* ------------------------------------------------------------ properties
Range(seq) == {seq[i] : i \in 1..Len(seq)}

\* What the latest call met.
LastClassDeclared == last.class_hash \in DOMAIN last.state_before.classes
LastClassHasNoConstructor ==
    /\ LastClassDeclared
    /\ last.state_before.classes[last.class_hash].constructor_selector = None
LastExecuted == last.called /\ last.tx_info # None
LastTrace == Unwrap(last.tx_info).execute_call_info
LastRevert == Unwrap(last.tx_info).revert_error
LastReturned == last.called /\ last.result.tag \in {"Ok", "Recoverable", "Unrecoverable"}

\* C1: over any sequence of deploy calls on one CheatnetState, whatever the
\* outcome of each call, the salts the calls use are strictly increasing, so
\* no two calls use the same salt.
C1_SaltsStrictlyIncrease ==
    \A i, j \in 1..Len(salts_used) : i < j => salts_used[i] < salts_used[j]

C1_Witness ==
    /\ Len(salts_used) >= 3
    /\ deployments # {}
    /\ last.result.tag = "Recoverable"

\* C2: create_execute_calldata returns exactly [D, S, N+3, C, K, N, A[0], ...,
\* A[N-1]], of length N+6; the third element is N+3 and the sixth is N, and
\* for N = 0 the result is [D, S, 3, C, K, 0].
C2_CalldataLayout ==
    enc.phase = "output" =>
        LET N == Len(enc.calldata) IN
        /\ Len(enc.out) = N + 6
        /\ enc.out[1] = enc.account_address
        /\ enc.out[2] = enc.entry_point_selector
        /\ enc.out[3] = N + 3
        /\ enc.out[4] = enc.class_hash
        /\ enc.out[5] = enc.salt
        /\ enc.out[6] = N
        /\ \A i \in 1..N : enc.out[6 + i] = enc.calldata[i]
        /\ (N = 0 =>
               enc.out = <<enc.account_address, enc.entry_point_selector, 3,
                           enc.class_hash, enc.salt, 0>>)

C2_Witness ==
    /\ enc.phase = "output"
    /\ enc.calldata = <<100, 200>>
    /\ enc.out = <<111, 222, 5, 123, 333, 2, 100, 200>>

\* C3: deploy of a declared class without a constructor, with non-empty
\* arguments, returns the recoverable failure ["No constructor in contract"]
\* without reading the nonce, building or executing a transaction, and
\* leaves the ledger state unchanged.
C3_NoConstructorGuard ==
    (last.called /\ LastClassHasNoConstructor /\ last.calldata # <<>>) =>
        /\ last.result = Recoverable(<<felt_from_short_string(NO_CONSTRUCTOR_MSG)>>)
        /\ last.nonce = None
        /\ last.account_tx = None
        /\ last.tx_info = None
        /\ last.engine = "untouched"
        /\ Range(last.log) \cap {"get_nonce_at", "execute"} = {}
        /\ blockifier_state = last.state_before

C3_Witness ==
    /\ last.called
    /\ LastClassHasNoConstructor
    /\ last.calldata = <<100, 200>>
    /\ last.result.tag = "Recoverable"
    /\ blockifier_state.nonces[TEST_ACCOUNT_CONTRACT_ADDRESS] > 0

\* C4: every transaction deploy submits is executed with the fee-charging
\* flag and the signature-validation flag both false.
C4_SimulationMode ==
    IsSome(last.flags) =>
        /\ Unwrap(last.flags).charge_fee = FALSE
        /\ Unwrap(last.flags).validate = FALSE

\* The infrastructure-level faults a call can meet.
FaultUnknownClass == last.called /\ ~LastClassDeclared
FaultNonce == last.called /\ "get_nonce_at" \in Range(last.log) /\ last.nonce = None
FaultRejected == last.called /\ "execute" \in Range(last.log) /\ last.tx_info = None
FaultRetdata ==
    /\ LastExecuted
    /\ IsSome(LastTrace)
    /\ \/ Unwrap(LastTrace).execution.retdata = <<>>
       \/ ContractAddress_try_from(Unwrap(LastTrace).execution.retdata[1]) = None
FaultRevert ==
    /\ LastExecuted
    /\ LastTrace = None
    /\ \/ LastRevert = None
       \/ try_extract_panic_data(Unwrap(LastRevert)) = None
Fault ==
    FaultUnknownClass \/ FaultNonce \/ FaultRejected \/ FaultRetdata \/ FaultRevert

\* C5 as stated: every infrastructure-level fault aborts the process; deploy
\* returns neither Ok nor Err for any of them.
C5_EveryFaultAborts ==
    Fault => (last.result.tag = "Panic" /\ status = "aborted")

\* C5 as amended: no infrastructure-level fault yields Ok or a recoverable
\* failure; an unknown class and a nonce lookup failure are returned to the
\* caller as the unrecoverable error, the other faults abort the process.
C5_FaultsAreNeverRecoverable ==
    /\ Fault => last.result.tag \in {"Unrecoverable", "Panic"}
    /\ (FaultUnknownClass \/ FaultNonce) =>
           (last.result.tag = "Unrecoverable" /\ status = "running")
    /\ (FaultRejected \/ FaultRetdata \/ FaultRevert) =>
           (last.result.tag = "Panic" /\ status = "aborted")

C5_Witness ==
    /\ FaultNonce
    /\ last.result.tag = "Unrecoverable"
    /\ Len(salts_used) >= 2

\* C6: when the execution result carries a call trace, deploy returns Ok
\* with the first return-data element as the address, whatever the revert
\* reason; with empty return data or an invalid first element it panics and
\* returns no recoverable failure.
C6_TraceGivesFirstRetdata ==
    (LastExecuted /\ IsSome(LastTrace)) =>
        LET retdata == Unwrap(LastTrace).execution.retdata IN
        IF retdata # <<>> /\ IsSome(ContractAddress_try_from(retdata[1]))
        THEN last.result = Ok(retdata[1])
        ELSE last.result.tag = "Panic"

C6_Witness ==
    /\ LastExecuted
    /\ IsSome(LastTrace)
    /\ Len(Unwrap(LastTrace).execution.retdata) = 2
    /\ IsSome(LastRevert)
    /\ last.result.tag = "Ok"
    /\ last.result.address = Unwrap(LastTrace).execution.retdata[1]

\* C7: when the execution result carries no call trace but a revert reason
\* the decoder decodes to P, deploy returns the recoverable failure with
\* payload exactly P; when the reason is absent or undecodable deploy panics.
C7_RevertGivesPanicData ==
    (LastExecuted /\ LastTrace = None) =>
        IF IsSome(LastRevert) /\ IsSome(try_extract_panic_data(Unwrap(LastRevert)))
        THEN last.result =
                 Recoverable(Unwrap(try_extract_panic_data(Unwrap(LastRevert))))
        ELSE last.result.tag = "Panic"

C7_Witness ==
    /\ LastExecuted
    /\ LastTrace = None
    /\ last.result =
           Recoverable(<<felt_from_short_string(PANIK), felt_from_short_string(DEJTA)>>)

\* C8: with an engine whose address is a deterministic function of
\* (deployer, class, salt, arguments), injective in the salt, two successful
\* deploy calls with the same class and the same arguments return distinct
\* addresses, also with other calls in between.
C8_DistinctAddresses ==
    \A d1, d2 \in deployments :
        (d1.n # d2.n /\ d1.class_hash = d2.class_hash /\ d1.calldata = d2.calldata)
            => d1.address # d2.address

C8_Witness ==
    \E d1, d2 \in deployments :
        /\ d2.n >= d1.n + 2
        /\ d1.class_hash = d2.class_hash
        /\ d1.calldata = d2.calldata
        /\ d1.address # d2.address

\* The transaction was executed and reverted inside the contract logic.
LastReverted == LastExecuted /\ LastTrace = None /\ IsSome(LastRevert)

\* C9 as stated: deploy returns a recoverable failure if and only if the
\* transaction was executed by the engine and reverted in contract logic.
C9_RecoverableIffReverted ==
    last.called => (last.result.tag = "Recoverable" <=> LastReverted)

\* C9 as amended: deploy returns a recoverable failure if and only if either
\* the class declares no constructor and arguments were passed (nothing is
\* executed), or the transaction was executed, left no call trace and
\* reverted with a reason the decoder decodes.
C9_RecoverableIffGuardOrDecodedRevert ==
    last.called =>
        (last.result.tag = "Recoverable" <=>
            \/ (LastClassHasNoConstructor /\ last.calldata # <<>> /\ ~LastExecuted)
            \/ (LastReverted /\ IsSome(try_extract_panic_data(Unwrap(LastRevert)))))

C9_Witness ==
    /\ last.called
    /\ last.result.tag = "Recoverable"
    /\ ~LastExecuted
    /\ Len(salts_used) >= 2

\* C10: each deploy call that returns, with an address or with a failure,
\* advances the salt counter by exactly one, and the salt in the calldata of
\* the call is the value the counter held before the advance.
C10_SaltCapturedBeforeAdvance ==
    LastReturned =>
        /\ deploy_salt_base = last.salt_base_before + 1
        /\ last.salt = Some(last.salt_base_before)
        /\ IsSome(last.execute_calldata) =>
               Unwrap(last.execute_calldata)[5] = last.salt_base_before

C10_Witness ==
    /\ LastReturned
    /\ last.result.tag = "Recoverable"
    /\ IsSome(last.execute_calldata)
    /\ Unwrap(last.execute_calldata)[5] = 2
    /\ deploy_salt_base = 3

IsPrefix(p, q) == Len(p) <= Len(q) /\ SubSeq(q, 1, Len(p)) = p

\* The order of the steps as the claim states it, and as deploy takes them.
StepsAsStated ==
    <<"get_compiled_contract_class", "constructor_check", "get_salt",
      "increment_deploy_salt_base", "create_execute_calldata", "get_nonce_at",
      "execute", "classify">>
StepsOfDeploy ==
    <<"get_salt", "increment_deploy_salt_base", "get_compiled_contract_class",
      "constructor_check", "create_execute_calldata", "get_nonce_at",
      "execute", "classify">>

\* C11 as stated: in every deploy call the steps happen in the order class
\* lookup, constructor-argument check, salt allocation, calldata encoding,
\* nonce read, execution, classification; the salt is asked for, and the
\* counter advanced, only after the class is resolved and the guard passed.
C11_SaltAfterGuard ==
    last.called =>
        /\ IsPrefix(last.log, StepsAsStated)
        /\ (deploy_salt_base # last.salt_base_before =>
               (LastClassDeclared
                /\ ~(LastClassHasNoConstructor /\ last.calldata # <<>>)))

\* C11 as amended: in every deploy call the steps happen in the order salt
\* allocation, class lookup, constructor-argument check, calldata encoding,
\* nonce read, execution, classification; the salt is captured and the
\* counter advanced first, also in a call the class lookup or the guard ends.
C11_SaltBeforeLookup ==
    last.called =>
        /\ IsPrefix(last.log, StepsOfDeploy)
        /\ Len(last.log) >= 3
        /\ IsSome(last.salt)
        /\ deploy_salt_base = last.salt_base_before + 1

C11_Witness ==
    /\ last.called
    /\ last.result = no_constructor_error
    /\ last.log = SubSeq(StepsOfDeploy, 1, 4)
    /\ last.salt_base_before = 1
    /\ deploy_salt_base = 2

\* C12: the single transaction deploy submits is an invoke transaction sent
\* by the test account (the first calldata element), at the nonce stored for
\* that account when this call read it, with the encoder output for
\* (arguments, class, test account, selector of "deploy_contract", captured
\* salt) as calldata and the default (zero) transaction hash.
C12_SubmittedTransaction ==
    IsSome(last.account_tx) =>
        LET account_tx == Unwrap(last.account_tx) IN
        /\ account_tx.tx.sender_address = TEST_ACCOUNT_CONTRACT_ADDRESS
        /\ account_tx.tx.calldata[1] = account_tx.tx.sender_address
        /\ account_tx.tx.nonce =
               last.state_before.nonces[TEST_ACCOUNT_CONTRACT_ADDRESS]
        /\ last.nonce = Some(account_tx.tx.nonce)
        /\ account_tx.tx.calldata =
               create_execute_calldata(last.calldata, last.class_hash,
                   TEST_ACCOUNT_CONTRACT_ADDRESS,
                   selector_from_name(DEPLOY_CONTRACT), last.salt_base_before)
        /\ account_tx.tx_hash = 0
        /\ Cardinality({i \in 1..Len(last.log) : last.log[i] = "execute"}) = 1

C12_Witness ==
    /\ IsSome(last.account_tx)
    /\ Unwrap(last.account_tx).tx.nonce = 2
    /\ last.calldata = <<100, 200>>
    /\ last.salt_base_before = 2

\* The latest call passes the guard: its class is declared and either has a
\* constructor or was given no arguments.
LastPassesGuard ==
    /\ last.called
    /\ LastClassDeclared
    /\ ~(LastClassHasNoConstructor /\ last.calldata # <<>>)

\* C13 as stated: the "No constructor in contract" failure is returned only
\* for a class without constructor and non-empty arguments; a no-constructor
\* class with empty arguments, and a class with a constructor with any
\* arguments, pass the guard and reach transaction execution in the engine.
C13_PassingGuardReachesExecution ==
    /\ (last.called /\ last.result = no_constructor_error) =>
           (LastClassHasNoConstructor /\ last.calldata # <<>>)
    /\ LastPassesGuard => "execute" \in Range(last.log)

\* C13 as amended: the failure is returned only for a class without
\* constructor and non-empty arguments; the other deploys of a declared class
\* pass the guard, encode the calldata and read the nonce, and reach
\* transaction execution in the engine unless the nonce lookup fails.
C13_PassingGuardReachesNonceRead ==
    /\ (last.called /\ last.result = no_constructor_error) =>
           (LastClassHasNoConstructor /\ last.calldata # <<>>)
    /\ LastPassesGuard =>
           /\ last.result # no_constructor_error
           /\ IsSome(last.execute_calldata)
           /\ "get_nonce_at" \in Range(last.log)
           /\ ("execute" \in Range(last.log) <=> IsSome(last.nonce))
           /\ (IsSome(last.nonce) => IsSome(last.account_tx))

C13_Witness ==
    /\ LastPassesGuard
    /\ LastClassHasNoConstructor
    /\ last.calldata = <<>>
    /\ "execute" \in Range(last.log)
    /\ last.result.tag = "Ok"

====
